---- MODULE Spec2Model ----
(***************************************************************************)
(* Model of src/app.py: the announcement sequencer (AnnouncementManager)   *)
(* and the speech worker (AudioEngine).                                    *)
(*                                                                         *)
(* Python values are represented as follows.                               *)
(*   Optional[T]   a sequence of length 0 (None) or 1 (the value)          *)
(*   str (text)    the sequence of the pieces an f-string concatenates     *)
(*   list index    the Python 0-based index i reads stations[i + 1]        *)
(***************************************************************************)
EXTENDS Integers, Sequences, FiniteSets, TLC

\* ------------------------------------------------------------------ bounds
MaxStations == 3
MaxCalls == 5
Window == 3
MaxSpeaks == 3
MaxHandles == 3
MaxLines == 2
MaxFired == 2

StationNames == {"A", "B", "C"}
RouteNames == {"linie1"}

\* ------------------------------------------------------------- Python values
None == << >>
Some(x) == << x >>

\* dataclass Route: a name and the ordered station list
Route(n, s) == [name |-> n, stations |-> s]

StationLists == UNION {[1..n -> StationNames] : n \in 1..MaxStations}
Routes == {Route(n, s) : n \in RouteNames, s \in StationLists}

\* ------------------------------------------------------ announcement texts
WelcomeText(start, end) ==
    << "Willkommen im Zug. Heute fahren wir von ", start, " nach ", end,
       ". Bitte achten Sie auf Ihre Gepaeckstuecke und eine angenehme Fahrt." >>

SingleTerminalText(station) ==
    << "Wir erreichen in wenigen Augenblicken die Endstation ", station,
       ". Bitte steigen Sie vorsichtig aus." >>

FarewellText ==
    << "Wir haben bereits alle Stationen erreicht. Vielen Dank, dass Sie mit uns gefahren sind." >>

TerminalText(station) ==
    << "Wir erreichen in wenigen Augenblicken die Endstation ", station,
       ". Bitte nehmen Sie alle persoenlichen Gegenstaende mit." >>

NextStopText(station) ==
    << "Naechster Halt: ", station, "." >>

\* ------------------------------------------------------------------- state
VARIABLES
    mgr,      \* the AnnouncementManager object: its five fields
    last,     \* the most recent call on it: operation, result, error, branch
    trace,    \* the outcomes of the next_message calls since the last load_route / reset
    recent    \* the names of the most recent operations, oldest first (at most Window)

svars == << mgr, last, trace, recent >>

VARIABLES
    queue,    \* AudioEngine._queue: the items put and not yet taken, oldest first
    worker,   \* the worker thread: its position in _run_loop and its local item
    engine,   \* the pyttsx3 engine: commands said and not yet run, utterances audible
    stopper,  \* the caller of AudioEngine.stop: idle, joining or returned
    enqueued, \* the texts passed to speak, in the order of the calls
    started,  \* the texts whose rendering the worker started, in order
    rendered  \* how each started rendering ended, in order

avars == << queue, worker, engine, stopper, enqueued, started, rendered >>

VARIABLES
    hotkeys,  \* HotkeyController._handles and the hotkeys live in the keyboard module
    hk        \* the most recent call on the controller: operation, arguments, error

hvars == << hotkeys, hk >>

VARIABLES
    after_queue, \* the callbacks scheduled with after(0, ...) and not yet run
    running,     \* the handlers in execution: the thread and the handler
    ui,          \* the most recent handler run: what it was given and what it did
    fired,       \* the number of hotkey callbacks invoked by the keyboard module
    dispatched   \* the number of scheduled callbacks the main loop has run

uvars == << after_queue, running, ui, fired, dispatched >>
vars == << svars, avars, hvars, uvars >>

NoRouteError == "RuntimeError: Keine Strecke geladen."

\* AnnouncementManager.__init__
NewManager ==
    [ route          |-> None,
      welcome_played |-> FALSE,
      next_index     |-> 1,
      finished       |-> FALSE,
      last_message   |-> None ]

\* load_route with the index always set to 1
load_route_index_one(self, route) ==
    [ route          |-> Some(route),
      welcome_played |-> FALSE,
      finished       |-> FALSE,
      last_message   |-> None,
      next_index     |-> 1 ]

\* load_route without "self._last_message = None"
load_route_keeps_last(self, route) ==
    [ route          |-> Some(route),
      welcome_played |-> FALSE,
      finished       |-> FALSE,
      last_message   |-> self.last_message,
      next_index     |-> IF Len(route.stations) > 1 THEN 1 ELSE 0 ]

\* AnnouncementManager.load_route
load_route(self, route) ==
    [ route          |-> Some(route),
      welcome_played |-> FALSE,
      finished       |-> FALSE,
      last_message   |-> None,
      next_index     |-> IF Len(route.stations) > 1 THEN 1 ELSE 0 ]

\* AnnouncementManager.has_route
has_route(self) == self.route # None

\* AnnouncementManager.current_route
current_route(self) == self.route

\* AnnouncementManager._ensure_route: TRUE when it raises ("if not self._route")
ensure_route_raises(self) == self.route = None

\* The outcome of a call: the object afterwards, the value returned, the
\* error raised ("" when the call returns) and the branch that produced it.
Outcome(self, ret, raised, branch) ==
    [ mgr |-> self, ret |-> ret, raised |-> raised, branch |-> branch ]

\* welcome_branch with the index advanced by the welcome call
welcome_branch_advances(self, route) ==
    LET start == route.stations[1]
        end   == route.stations[Len(route.stations)]
        text  == WelcomeText(start, end)
    IN  Outcome([self EXCEPT !.welcome_played = TRUE,
                             !.next_index = @ + 1,
                             !.last_message = Some(text)],
                Some(text), "", "welcome")

\* next_message, "if not self._welcome_played": the welcome message
welcome_branch(self, route) ==
    LET start == route.stations[1]
        end   == route.stations[Len(route.stations)]
        text  == WelcomeText(start, end)
    IN  Outcome([self EXCEPT !.welcome_played = TRUE,
                             !.last_message = Some(text)],
                Some(text), "", "welcome")

\* single_branch without the assignment to _last_message
single_branch_forgets_last(self, route) ==
    LET text == SingleTerminalText(route.stations[1])
    IN  Outcome([self EXCEPT !.finished = TRUE],
                Some(text), "", "single")

\* next_message, "if len(route.stations) == 1": the single-station terminal message
single_branch(self, route) ==
    LET text == SingleTerminalText(route.stations[1])
    IN  Outcome([self EXCEPT !.finished = TRUE,
                             !.last_message = Some(text)],
                Some(text), "", "single")

\* next_message, "if self._next_index >= len(route.stations)": the farewell
farewell_branch(self, route) ==
    Outcome([self EXCEPT !.finished = TRUE,
                         !.last_message = Some(FarewellText)],
            Some(FarewellText), "", "farewell")

\* station_branch without "self._finished = True" at the last stop
station_branch_never_finishes(self, route) ==
    LET station  == route.stations[self.next_index + 1]
        terminal == self.next_index = Len(route.stations) - 1
        text     == IF terminal THEN TerminalText(station)
                                ELSE NextStopText(station)
    IN  Outcome([self EXCEPT !.next_index = @ + 1,
                             !.last_message = Some(text)],
                Some(text), "",
                IF terminal THEN "terminal" ELSE "next_stop")

\* next_message, the generic indexing branch: stations[next_index]
station_branch(self, route) ==
    LET station  == route.stations[self.next_index + 1]
        terminal == self.next_index = Len(route.stations) - 1
        text     == IF terminal THEN TerminalText(station)
                                ELSE NextStopText(station)
    IN  Outcome([self EXCEPT !.finished = IF terminal THEN TRUE ELSE @,
                             !.next_index = @ + 1,
                             !.last_message = Some(text)],
                Some(text), "",
                IF terminal THEN "terminal" ELSE "next_stop")

\* next_message without the "if self._finished" early return
next_message_no_finished_check(self) ==
    IF ensure_route_raises(self)
    THEN Outcome(self, None, NoRouteError, "no_route")
    ELSE
    LET route == self.route[1]
    IN  IF ~self.welcome_played
        THEN welcome_branch(self, route)
        ELSE IF Len(route.stations) = 1
        THEN single_branch(self, route)
        ELSE IF self.next_index >= Len(route.stations)
        THEN farewell_branch(self, route)
        ELSE station_branch(self, route)

\* next_message without the "if len(route.stations) == 1" branch
next_message_no_single_check(self) ==
    IF ensure_route_raises(self)
    THEN Outcome(self, None, NoRouteError, "no_route")
    ELSE
    LET route == self.route[1]
    IN  IF self.finished
        THEN Outcome(self, None, "", "finished")
        ELSE IF ~self.welcome_played
        THEN welcome_branch(self, route)
        ELSE IF self.next_index >= Len(route.stations)
        THEN farewell_branch(self, route)
        ELSE station_branch(self, route)

\* AnnouncementManager.next_message
next_message(self) ==
    IF ensure_route_raises(self)
    THEN Outcome(self, None, NoRouteError, "no_route")
    ELSE
    LET route == self.route[1]
    IN  IF self.finished
        THEN Outcome(self, None, "", "finished")
        ELSE IF ~self.welcome_played
        THEN welcome_branch(self, route)
        ELSE IF Len(route.stations) = 1
        THEN single_branch(self, route)
        ELSE IF self.next_index >= Len(route.stations)
        THEN farewell_branch(self, route)
        ELSE station_branch(self, route)

\* AnnouncementManager.repeat_last
repeat_last(self) == self.last_message

\* next_station_name reporting nothing until the welcome has played
next_station_name_after_welcome(self) ==
    IF self.route = None \/ self.finished \/ ~self.welcome_played
    THEN None
    ELSE LET stations == self.route[1].stations
         IN  IF Len(stations) = 1
             THEN Some(stations[1])
             ELSE IF self.next_index >= Len(stations)
             THEN None
             ELSE Some(stations[self.next_index + 1])

\* AnnouncementManager.next_station_name
next_station_name(self) ==
    IF self.route = None \/ self.finished
    THEN None
    ELSE LET stations == self.route[1].stations
         IN  IF Len(stations) = 1
             THEN Some(stations[1])
             ELSE IF self.next_index >= Len(stations)
             THEN None
             ELSE Some(stations[self.next_index + 1])

\* reset without "self._last_message = None"
reset_keeps_last_message(self) ==
    [ route          |-> None,
      welcome_played |-> FALSE,
      finished       |-> FALSE,
      last_message   |-> self.last_message,
      next_index     |-> 1 ]

\* reset without "self._route = None"
reset_keeps_route(self) ==
    [ route          |-> self.route,
      welcome_played |-> FALSE,
      finished       |-> FALSE,
      last_message   |-> None,
      next_index     |-> 1 ]

\* AnnouncementManager.reset
reset(self) ==
    [ route          |-> None,
      welcome_played |-> FALSE,
      finished       |-> FALSE,
      last_message   |-> None,
      next_index     |-> 1 ]

\* ------------------------------------------------------- sequencer actions
Call(op, ret, raised, branch) ==
    [ op |-> op, ret |-> ret, raised |-> raised, branch |-> branch ]

\* the outcome of one next_message call as kept in trace
Entry(out) ==
    [ ret |-> out.ret, raised |-> out.raised, branch |-> out.branch,
      finished |-> out.mgr.finished ]

Remember(op) ==
    IF Len(recent) < Window THEN Append(recent, op)
                            ELSE Append(Tail(recent), op)

SeqInit ==
    /\ mgr = NewManager
    /\ last = Call("init", None, "", "")
    /\ trace = << >>
    /\ recent = << >>

\* AudioEngine.__init__: an empty unbounded queue, the worker started
AudioInit ==
    /\ queue = << >>
    /\ worker = [pc |-> "get", item |-> None]
    /\ engine = [commands |-> << >>, audible |-> << >>]
    /\ stopper = "idle"
    /\ enqueued = << >>
    /\ started = << >>
    /\ rendered = << >>

\* ------------------------------------------------------- HotkeyController
\* str.strip: the characters of s without leading and trailing whitespace
Whitespace == {" ", "\t"}

RECURSIVE lstrip(_)
lstrip(s) ==
    IF s # << >> /\ Head(s) \in Whitespace THEN lstrip(Tail(s)) ELSE s

RECURSIVE rstrip(_)
rstrip(s) ==
    IF s # << >> /\ s[Len(s)] \in Whitespace
    THEN rstrip(SubSeq(s, 1, Len(s) - 1)) ELSE s

strip(s) == rstrip(lstrip(s))

\* the names the application registers its hotkeys under
HotkeyNames == {"next", "repeat"}

\* the callbacks it registers
Callbacks == {"_on_next_hotkey", "_on_repeat_hotkey"}

\* key combinations, as the sequence of their characters (key names kept whole)
DefaultNext == << "ctrl", "+", "alt", "+", "n" >>
DefaultRepeat == << "ctrl", "+", "alt", "+", "r" >>
Combinations ==
    { << >>, << " " >>, DefaultNext, DefaultRepeat, << "ctrl", "+", "alt", "+" >> }

\* keyboard.add_hotkey accepts a combination of key names joined by "+"
KeyNames == {"ctrl", "alt", "n", "r"}
Parses(combination) ==
    LET c == strip(combination)
    IN  /\ Len(c) % 2 = 1
        /\ \A i \in 1..Len(c) :
               IF i % 2 = 1 THEN c[i] \in KeyNames ELSE c[i] = "+"

InvalidHotkeyError == "ValueError: ungueltige Hotkey-Kombination"

\* HotkeyController.__init__, with no hotkey live in the keyboard module
NewController ==
    [ handles |-> << >>, live |-> {}, issued |-> 0 ]

\* keyboard.remove_hotkey
remove_hotkey(live, handle) == {b \in live : b.handle # handle}

\* dict.pop(name, None) / del: the dictionary without the key
without(handles, name) ==
    [n \in DOMAIN handles \ {name} |-> handles[n]]

\* dict[name] = handle
with(handles, name, handle) ==
    [n \in DOMAIN handles \cup {name} |->
        IF n = name THEN handle ELSE handles[n]]

\* HotkeyController.unregister
unregister(self, name) ==
    IF name \in DOMAIN self.handles
    THEN [self EXCEPT !.handles = without(self.handles, name),
                      !.live = remove_hotkey(self.live, self.handles[name])]
    ELSE self

\* the result of a controller call: the controller afterwards and the error
Registered(self, raised) == [ctl |-> self, raised |-> raised]

\* register without the unregister of the name's previous binding
register_keeps_previous(self, name, combination, callback) ==
    IF strip(combination) = << >>
    THEN Registered(self, "")
    ELSE IF ~Parses(combination)
    THEN Registered(self, InvalidHotkeyError)
    ELSE LET handle == self.issued + 1
         IN  Registered([ handles |-> with(self.handles, name, handle),
                          live    |-> self.live \cup
                                        {[handle |-> handle,
                                          combination |-> combination,
                                          callback |-> callback]},
                          issued  |-> handle ], "")

\* HotkeyController.register
register(self, name, combination, callback) ==
    LET cleared == unregister(self, name)
    IN  IF strip(combination) = << >>
        THEN Registered(cleared, "")
        ELSE IF ~Parses(combination)
        THEN Registered(cleared, InvalidHotkeyError)
        ELSE LET handle == cleared.issued + 1
             IN  Registered([ handles |-> with(cleared.handles, name, handle),
                              live    |-> cleared.live \cup
                                            {[handle |-> handle,
                                              combination |-> combination,
                                              callback |-> callback]},
                              issued  |-> handle ], "")

\* HotkeyController.clear
clear(self) ==
    [self EXCEPT !.handles = << >>,
                 !.live = {b \in self.live :
                              \A n \in DOMAIN self.handles : b.handle # self.handles[n]}]

\* the callback the application registers under a name
CallbackOf(name) ==
    IF name = "next" THEN "_on_next_hotkey" ELSE "_on_repeat_hotkey"

\* AnnouncementApp._register_user_hotkeys: the two register calls, the second
\* skipped when the first raises; the ValueError is caught and shown
register_user_hotkeys(self, next_combination, repeat_combination) ==
    LET first == register(self, "next", next_combination, CallbackOf("next"))
    IN  IF first.raised # ""
        THEN first
        ELSE register(first.ctl, "repeat", repeat_combination, CallbackOf("repeat"))

\* AnnouncementApp._register_default_hotkeys, from the entries' defaults
register_default_hotkeys(self) ==
    register(register(self, "next", DefaultNext, CallbackOf("next")).ctl,
             "repeat", DefaultRepeat, CallbackOf("repeat")).ctl

\* the binding active under a name: its combination and callback, or None
Binding(self, name) ==
    IF name \in DOMAIN self.handles
    THEN LET b == CHOOSE b \in self.live : b.handle = self.handles[name]
         IN  Some([combination |-> b.combination, callback |-> b.callback])
    ELSE None

Bindings(self) == [n \in HotkeyNames |-> Binding(self, n)]

HotkeyCall(op, name, combination, callback, raised) ==
    [ op |-> op, name |-> name, combination |-> combination,
      callback |-> callback, raised |-> raised,
      before |-> hotkeys ]

HotkeyInit ==
    /\ hotkeys = NewController
    /\ hk = [ op |-> "init", name |-> "", combination |-> << >>,
              callback |-> "", raised |-> "", before |-> NewController ]

\* AnnouncementApp.__init__: the widgets as created
NewWindow ==
    [ event |-> "init", given |-> << >>, dialog |-> "", spoke |-> None,
      status |-> << "Keine Ansage aktiv." >>, next_label |-> None,
      selection |-> None ]

\* AnnouncementApp.__init__: nothing scheduled, no handler running
UIInit ==
    /\ after_queue = << >>
    /\ running = {}
    /\ ui = NewWindow
    /\ fired = 0
    /\ dispatched = 0

Init == SeqInit /\ AudioInit /\ HotkeyInit /\ UIInit

Register ==
    \E name \in HotkeyNames, combination \in Combinations, callback \in Callbacks :
        /\ hotkeys.issued < MaxHandles
        /\ LET out == register(hotkeys, name, combination, callback)
           IN  /\ hotkeys' = out.ctl
               /\ hk' = HotkeyCall("register", name, combination, callback, out.raised)
        /\ UNCHANGED << svars, avars, uvars >>

Unregister ==
    \E name \in HotkeyNames :
        /\ hotkeys' = unregister(hotkeys, name)
        /\ hk' = HotkeyCall("unregister", name, << >>, "", "")
        /\ UNCHANGED << svars, avars, uvars >>

Clear ==
    /\ hotkeys' = clear(hotkeys)
    /\ hk' = HotkeyCall("clear", "", << >>, "", "")
    /\ UNCHANGED << svars, avars, uvars >>

RegisterUserHotkeys ==
    \E next_combination \in Combinations, repeat_combination \in Combinations :
        /\ hotkeys.issued + 1 < MaxHandles
        /\ LET out == register_user_hotkeys(hotkeys, next_combination,
                                            repeat_combination)
           IN  /\ hotkeys' = out.ctl
               /\ hk' = HotkeyCall("register_user_hotkeys", "",
                                   << next_combination, repeat_combination >>,
                                   "", out.raised)
        /\ UNCHANGED << svars, avars, uvars >>

NextHotkeys ==
    \/ Register
    \/ Unregister
    \/ Clear
    \/ RegisterUserHotkeys

SpecHotkeys == Init /\ [][NextHotkeys]_vars


LoadRoute ==
    \E route \in Routes :
        /\ mgr' = load_route(mgr, route)
        /\ last' = Call("load_route", None, "", "")
        /\ trace' = << >>
        /\ recent' = Remember("load_route")
        /\ UNCHANGED << avars, hvars, uvars >>

NextMessage ==
    /\ Len(trace) < MaxCalls
    /\ LET out == next_message(mgr)
       IN  /\ mgr' = out.mgr
           /\ last' = Call("next_message", out.ret, out.raised, out.branch)
           /\ trace' = Append(trace, Entry(out))
    /\ recent' = Remember("next_message")
    /\ UNCHANGED << avars, hvars, uvars >>

RepeatLast ==
    /\ mgr' = mgr
    /\ last' = Call("repeat_last", repeat_last(mgr), "", "")
    /\ trace' = trace
    /\ recent' = Remember("repeat_last")
    /\ UNCHANGED << avars, hvars, uvars >>

Reset ==
    /\ mgr' = reset(mgr)
    /\ last' = Call("reset", None, "", "")
    /\ trace' = << >>
    /\ recent' = Remember("reset")
    /\ UNCHANGED << avars, hvars, uvars >>

Next ==
    \/ LoadRoute
    \/ NextMessage
    \/ RepeatLast
    \/ Reset

Spec == Init /\ [][Next]_vars

\* ------------------------------------------------------------ AudioEngine
\* the texts passed to speak
Texts == { << "x" >>, << "y" >> }

\* queue.Queue.put on the unbounded queue: never blocks, appends at the end
put(q, item) == Append(q, item)

\* AudioEngine.speak.  The call is the single put, atomic under the queue's
\* lock: calls of concurrent producers take effect one after the other.
Speak(text) ==
    /\ Len(enqueued) < MaxSpeaks
    /\ queue' = put(queue, Some(text))
    /\ enqueued' = Append(enqueued, text)
    /\ UNCHANGED << worker, engine, stopper, started, rendered >>
    /\ UNCHANGED << svars, hvars, uvars >>

\* AudioEngine.stop, "self._queue.put(None)"
StopCall ==
    /\ stopper = "idle"
    /\ queue' = put(queue, None)
    /\ stopper' = "joining"
    /\ UNCHANGED << worker, engine, enqueued, started, rendered >>
    /\ UNCHANGED << svars, hvars, uvars >>

\* AudioEngine.stop, "self._worker.join(timeout=2)": returns when the worker
\* has ended or the two seconds are over
StopJoinReturns ==
    /\ stopper = "joining"
    /\ stopper' = "returned"
    /\ UNCHANGED << queue, worker, engine, enqueued, started, rendered >>
    /\ UNCHANGED << svars, hvars, uvars >>

\* _run_loop taking the newest item instead of the oldest
WorkerGet_lifo ==
    /\ worker.pc = "get"
    /\ queue # << >>
    /\ LET item == queue[Len(queue)]
       IN  worker' = [pc |-> IF item = None THEN "exited" ELSE "stop", item |-> item]
    /\ queue' = SubSeq(queue, 1, Len(queue) - 1)
    /\ UNCHANGED << engine, stopper, enqueued, started, rendered >>
    /\ UNCHANGED << svars, hvars, uvars >>

\* _run_loop, "item = self._queue.get()" (blocks while the queue is empty)
\* and "if item is None: break"
WorkerGet ==
    /\ worker.pc = "get"
    /\ queue # << >>
    /\ LET item == Head(queue)
       IN  worker' = [pc |-> IF item = None THEN "exited" ELSE "stop", item |-> item]
    /\ queue' = Tail(queue)
    /\ UNCHANGED << engine, stopper, enqueued, started, rendered >>
    /\ UNCHANGED << svars, hvars, uvars >>

\* how a rendering ended: completed, interrupted or failed; next_waiting
\* tells whether another text was already queued at that moment
Ended(text, outcome) ==
    [ text |-> text, outcome |-> outcome,
      next_waiting |-> queue # << >> /\ Head(queue) # None ]

\* the entries for the utterances audible now, all ending the same way
EndedAll(outcome) ==
    [ i \in 1..Len(engine.audible) |-> Ended(engine.audible[i], outcome) ]

\* _run_loop, "self._engine.stop()": the engine drops the commands it holds
\* and interrupts what is audible
WorkerEngineStop ==
    /\ worker.pc = "stop"
    /\ engine' = [commands |-> << >>, audible |-> << >>]
    /\ rendered' = rendered \o EndedAll("interrupted")
    /\ worker' = [worker EXCEPT !.pc = "say"]
    /\ UNCHANGED << queue, stopper, enqueued, started >>
    /\ UNCHANGED << svars, hvars, uvars >>

\* _run_loop, "self._engine.say(item)": the engine queues the utterance
WorkerSay ==
    /\ worker.pc = "say"
    /\ engine' = [engine EXCEPT !.commands = Append(@, worker.item[1])]
    /\ worker' = [worker EXCEPT !.pc = "run"]
    /\ UNCHANGED << queue, stopper, enqueued, started, rendered >>
    /\ UNCHANGED << svars, hvars, uvars >>

\* _run_loop, "self._engine.runAndWait()": the engine starts the utterance
\* it holds; the worker is blocked in the call
WorkerRunAndWait ==
    /\ worker.pc = "run"
    /\ engine.commands # << >>
    /\ engine' = [commands |-> Tail(engine.commands),
                  audible  |-> Append(engine.audible, Head(engine.commands))]
    /\ started' = Append(started, Head(engine.commands))
    /\ worker' = [worker EXCEPT !.pc = "speaking"]
    /\ UNCHANGED << queue, stopper, enqueued, rendered >>
    /\ UNCHANGED << svars, hvars, uvars >>

\* _run_loop, runAndWait returning: the utterance has been spoken to its
\* end, and the loop is back at the get
WorkerUtteranceDone ==
    /\ worker.pc = "speaking"
    /\ engine.commands = << >>
    /\ engine' = [engine EXCEPT !.audible = << >>]
    /\ rendered' = rendered \o EndedAll("completed")
    /\ worker' = [pc |-> "get", item |-> None]
    /\ UNCHANGED << queue, stopper, enqueued, started >>
    /\ UNCHANGED << svars, hvars, uvars >>

\* _run_loop, an engine call raising: nothing in the loop catches it, and
\* the worker thread ends with the exception
WorkerRenderFails ==
    /\ worker.pc \in {"stop", "say", "run", "speaking"}
    /\ engine' = [engine EXCEPT !.audible = << >>]
    /\ rendered' = rendered \o EndedAll("failed")
    /\ worker' = [worker EXCEPT !.pc = "crashed"]
    /\ UNCHANGED << queue, stopper, enqueued, started >>
    /\ UNCHANGED << svars, hvars, uvars >>

NextAudio ==
    \/ \E text \in Texts : Speak(text)
    \/ StopCall
    \/ StopJoinReturns
    \/ WorkerGet
    \/ WorkerEngineStop
    \/ WorkerSay
    \/ WorkerRunAndWait
    \/ WorkerUtteranceDone
    \/ WorkerRenderFails

SpecAudio == Init /\ [][NextAudio]_vars

\* --------------------------------------------------------- AnnouncementApp
\* the lines of a route file (content.splitlines()), each the sequence of
\* its characters
RawLines == { << " " >>, << "A" >>, << " ", "B", " " >> }
Files == UNION {[1..n -> RawLines] : n \in 0..MaxLines}

\* the file dialog closed without a choice (askopenfilename returns "")
NoFile == << << "<cancelled>" >> >>

EmptyRouteError == "ValueError: Die Datei enthaelt keine Stationen."
NoRouteWarning == "Keine Strecke: Bitte zuerst eine Strecke laden."
NothingSpokenInfo == "Keine Ansage: Es wurde noch keine Ansage abgespielt."

\* [line.strip() for line in lines]
RECURSIVE stripped(_)
stripped(lines) ==
    IF lines = << >> THEN << >>
    ELSE << strip(Head(lines)) >> \o stripped(Tail(lines))

\* the outcome of _read_route: the route, or the error raised
ReadResult(route, raised) == [route |-> route, raised |-> raised]

\* _read_route keeping the blank lines as stations
read_route_keeps_blank_lines(lines) ==
    LET stations == stripped(lines)
    IN  IF stations = << >>
        THEN ReadResult(None, EmptyRouteError)
        ELSE ReadResult(Some(Route("linie1", stations)), "")

\* AnnouncementApp._read_route, from the lines of the file
read_route(lines) ==
    LET stations == stripped(SelectSeq(lines, LAMBDA line : strip(line) # << >>))
    IN  IF stations = << >>
        THEN ReadResult(None, EmptyRouteError)
        ELSE ReadResult(Some(Route("linie1", stations)), "")

\* list.index: the 0-based position of the first occurrence
index(stations, name) ==
    (CHOOSE i \in 1..Len(stations) :
        /\ stations[i] = name
        /\ \A j \in 1..(i - 1) : stations[j] # name) - 1

\* _update_next_station_label and _highlight_current_position: the label
\* and the selected row of the station list for a manager
NextLabel(self) == next_station_name(self)
Selection(self) ==
    IF next_station_name(self) = None THEN None
    ELSE Some(index(self.route[1].stations, next_station_name(self)[1]))

\* what a handler run leaves behind: the handler, what it was given, the
\* dialog it showed, the text it passed to speak, and the widgets
Handled(event, given, dialog, spoke, status, self) ==
    [ event |-> event, given |-> given, dialog |-> dialog, spoke |-> spoke,
      status |-> status, next_label |-> NextLabel(self),
      selection |-> Selection(self) ]

\* a handler run that changes no widget
Unchanged(event, given, dialog) ==
    [ui EXCEPT !.event = event, !.given = given, !.dialog = dialog,
               !.spoke = None]

\* the state after AnnouncementApp.__init__: the default hotkeys registered
AppInit ==
    /\ SeqInit
    /\ AudioInit
    /\ hotkeys = register_default_hotkeys(NewController)
    /\ hk = [ op |-> "init", name |-> "", combination |-> << >>,
              callback |-> "", raised |-> "", before |-> NewController ]
    /\ after_queue = << >>
    /\ running = {}
    /\ ui = NewWindow
    /\ fired = 0
    /\ dispatched = 0

MainThread == "main"
KeyboardThread == "keyboard"
Handlers == {"_trigger_next", "_repeat_last", "_load_route"}

Execution(thread, handler) == [thread |-> thread, handler |-> handler]

\* the main loop is between two handlers.  A handler's calls on the manager
\* and on the engine are one uninterrupted stretch of the main thread; its
\* dialogs come before that stretch (_load_route) or after it, and what
\* the main loop runs while a dialog is open is ordered before or after the
\* stretch accordingly.
MainIdle == \A r \in running : r.thread # MainThread

\* the handler a hotkey callback schedules
Scheduled(callback) ==
    IF callback = "_on_next_hotkey" THEN "_trigger_next" ELSE "_repeat_last"

\* the texts passed to speak so far plus the handler runs, scheduled or
\* started, that may still pass one
Speaking ==
    Len(enqueued) + Len(after_queue)
        + Cardinality({r \in running : r.handler # "_load_route"})

\* a hotkey callback running the handler itself, on the keyboard's thread
HotkeyFired_direct(callback) ==
    /\ fired < MaxFired
    /\ Speaking < MaxSpeaks
    /\ \E b \in hotkeys.live : b.callback = callback
    /\ running' = running \cup {Execution(KeyboardThread, Scheduled(callback))}
    /\ fired' = fired + 1
    /\ UNCHANGED << after_queue, ui, dispatched >>
    /\ UNCHANGED << svars, avars, hvars >>

\* _on_next_hotkey / _on_repeat_hotkey, invoked by the keyboard module on its
\* own thread for a live hotkey: self.after(0, handler)
HotkeyFired(callback) ==
    /\ fired < MaxFired
    /\ Speaking < MaxSpeaks
    /\ \E b \in hotkeys.live : b.callback = callback
    /\ after_queue' = Append(after_queue, Scheduled(callback))
    /\ fired' = fired + 1
    /\ UNCHANGED << running, ui, dispatched >>
    /\ UNCHANGED << svars, avars, hvars >>

\* the main loop running a button's command
ButtonPressed(handler) ==
    /\ MainIdle
    /\ handler = "_load_route" \/ Speaking < MaxSpeaks
    /\ running' = running \cup {Execution(MainThread, handler)}
    /\ UNCHANGED << after_queue, ui, fired, dispatched >>
    /\ UNCHANGED << svars, avars, hvars >>

\* the main loop running the oldest callback scheduled with after(0, ...)
DispatchAfter ==
    /\ MainIdle
    /\ after_queue # << >>
    /\ running' = running \cup {Execution(MainThread, Head(after_queue))}
    /\ after_queue' = Tail(after_queue)
    /\ dispatched' = dispatched + 1
    /\ UNCHANGED << ui, fired >>
    /\ UNCHANGED << svars, avars, hvars >>

\* the handler run ends
Returns(handler) ==
    /\ Execution(MainThread, handler) \in running
    /\ running' = running \ {Execution(MainThread, handler)}

\* AnnouncementApp._trigger_next
TriggerNext ==
    /\ Returns("_trigger_next")
    /\ IF ~has_route(mgr)
       THEN /\ ui' = Unchanged("_trigger_next", << >>, NoRouteWarning)
            /\ UNCHANGED << svars, queue, enqueued >>
       ELSE LET out == next_message(mgr)
            IN  /\ mgr' = out.mgr
                /\ UNCHANGED << last, trace, recent >>
                /\ IF out.ret = None
                   THEN /\ ui' = [Unchanged("_trigger_next", << >>, "")
                                    EXCEPT !.status =
                                      << "Alle Ansagen wurden bereits abgespielt." >>]
                        /\ UNCHANGED << queue, enqueued >>
                   ELSE /\ queue' = put(queue, out.ret)
                        /\ enqueued' = Append(enqueued, out.ret[1])
                        /\ ui' = Handled("_trigger_next", << >>, "", out.ret,
                                         << "Aktive Ansage: ", out.ret[1] >>,
                                         out.mgr)
    /\ UNCHANGED << worker, engine, stopper, started, rendered >>
    /\ UNCHANGED << hvars, after_queue, fired, dispatched >>

\* AnnouncementApp._repeat_last
RepeatLastTrigger ==
    /\ Returns("_repeat_last")
    /\ LET message == repeat_last(mgr)
       IN  /\ UNCHANGED << last, trace, recent >>
           /\ IF message = None
              THEN /\ ui' = Unchanged("_repeat_last", << >>, NothingSpokenInfo)
                   /\ UNCHANGED << queue, enqueued >>
              ELSE /\ queue' = put(queue, message)
                   /\ enqueued' = Append(enqueued, message[1])
                   /\ ui' = [Unchanged("_repeat_last", << >>, "")
                               EXCEPT !.spoke = message,
                                      !.status = << "Wiederhole: ", message[1] >>]
    /\ UNCHANGED mgr
    /\ UNCHANGED << worker, engine, stopper, started, rendered >>
    /\ UNCHANGED << hvars, after_queue, fired, dispatched >>

\* AnnouncementApp._load_route
LoadRouteFile ==
    \E given \in Files \cup {NoFile} :
        /\ Returns("_load_route")
        /\ IF given = NoFile
           THEN /\ ui' = Unchanged("_load_route", given, "")
                /\ UNCHANGED svars
           ELSE LET read == read_route(given)
                IN  IF read.raised # ""
                    THEN /\ ui' = Unchanged("_load_route", given, read.raised)
                         /\ UNCHANGED svars
                    ELSE /\ mgr' = load_route(mgr, read.route[1])
                         /\ UNCHANGED << last, trace, recent >>
                         /\ ui' = Handled("_load_route", given, "", None,
                                    << "Strecke geladen. Druecke den Hotkey oder Button fuer die Ansagen." >>,
                                    load_route(mgr, read.route[1]))
        /\ UNCHANGED << avars, hvars, after_queue, fired, dispatched >>

NextApp ==
    \/ \E callback \in Callbacks : HotkeyFired(callback)
    \/ \E handler \in Handlers : ButtonPressed(handler)
    \/ DispatchAfter
    \/ TriggerNext
    \/ RepeatLastTrigger
    \/ LoadRouteFile

SpecApp == AppInit /\ [][NextApp]_vars

\* the Tk main loop runs every scheduled callback and every handler returns
SpecAppFair ==
    /\ SpecApp
    /\ SF_vars(DispatchAfter)
    /\ WF_vars(TriggerNext) /\ WF_vars(RepeatLastTrigger) /\ WF_vars(LoadRouteFile)

\* ------------------------------------------------- properties: vocabulary
Loaded == has_route(mgr)

\* the station list of the loaded route, and its length
Stations == mgr.route[1].stations
N == Len(Stations)

\* the last n operations, oldest first
LastOps(n) ==
    IF Len(recent) < n THEN << >>
    ELSE SubSeq(recent, Len(recent) - n + 1, Len(recent))

\* the text the k-th next_message call after load_route is to return on a
\* route of n >= 2 stations, 1 <= k <= n
Announcement(stations, k) ==
    LET n == Len(stations)
    IN  IF k = 1 THEN Some(WelcomeText(stations[1], stations[n]))
        ELSE IF k < n THEN Some(NextStopText(stations[k]))
        ELSE Some(TerminalText(stations[n]))

\* ---------------------------------------------------------------------- C1
\* C1 as stated: on a route of N >= 2 stations every one of the first N+1
\* next_message calls after load_route yields a message (the welcome, then
\* the messages for stations[1..N-1] in order), the route is finished after
\* them, and None is returned from call N+2 on.
C1_Original ==
    (Loaded /\ N >= 2) =>
        /\ \A k \in 1..Len(trace) :
              /\ k <= N => trace[k].ret = Announcement(Stations, k)
              /\ k <= N + 1 => trace[k].ret # None
              /\ k >= N + 2 => trace[k].ret = None
        /\ Len(trace) >= N + 1 => mgr.finished

\* C1 amended: on a route of N >= 2 stations the first N next_message calls
\* after load_route yield the welcome and then the N-1 next-stop / terminal
\* messages naming stations[1..N-1] in order, after which the route is
\* finished; call N+1 and every later call yields None.
C1_WelcomeThenStationsThenNone ==
    (Loaded /\ N >= 2) =>
        /\ \A k \in 1..Len(trace) :
              trace[k].ret = IF k <= N THEN Announcement(Stations, k) ELSE None
        /\ Len(trace) >= N => mgr.finished

C1_Witness ==
    /\ Loaded
    /\ N = 3
    /\ Len(trace) = N + 2
    /\ trace[N].ret = Some(TerminalText(Stations[N]))
    /\ trace[N + 1].ret = None
    /\ trace[N + 2].ret = None

\* ---------------------------------------------------------------------- C2
\* C2: on a freshly loaded route of N >= 2 stations, call 1 is the welcome
\* naming stations[0] and stations[N-1]; call k, 2 <= k <= N-1, is the
\* next-stop message naming stations[k-1] and leaves finished false; call N
\* is the terminal-approach message naming stations[N-1] and sets finished
\* on that same call; call N+1 and all later calls return None.
C2_CallByCall ==
    (Loaded /\ N >= 2) =>
        /\ Len(trace) = 0 => ~mgr.finished
        /\ \A k \in 1..Len(trace) :
              /\ k = 1 =>
                    /\ trace[k].ret = Some(WelcomeText(Stations[1], Stations[N]))
                    /\ trace[k].branch = "welcome"
                    /\ ~trace[k].finished
              /\ (2 <= k /\ k <= N - 1) =>
                    /\ trace[k].ret = Some(NextStopText(Stations[k]))
                    /\ trace[k].branch = "next_stop"
                    /\ ~trace[k].finished
              /\ (k = N) =>
                    /\ trace[k].ret = Some(TerminalText(Stations[N]))
                    /\ trace[k].branch = "terminal"
                    /\ trace[k].finished
              /\ k > N =>
                    /\ trace[k].ret = None
                    /\ trace[k].branch = "finished"
                    /\ trace[k].finished

C2_Witness ==
    /\ Loaded
    /\ Stations = << "A", "B", "C" >>
    /\ Len(trace) = 4
    /\ trace[1].ret = Some(WelcomeText("A", "C"))
    /\ trace[2].ret = Some(NextStopText("B")) /\ ~trace[2].finished
    /\ trace[3].ret = Some(TerminalText("C")) /\ trace[3].finished
    /\ trace[4].ret = None

\* ---------------------------------------------------------------------- C3
\* C3: on a route of exactly one station exactly two next_message calls
\* produce text: the welcome naming that station as start and end, then the
\* single-station terminal message naming it; finished is false after the
\* first and true after the second, and the generic indexing branch
\* (stations[next_index]) is never taken.
C3_SingleStation ==
    (Loaded /\ N = 1) =>
        /\ Len(trace) = 0 => ~mgr.finished
        /\ \A k \in 1..Len(trace) :
              /\ k = 1 =>
                    /\ trace[k].ret = Some(WelcomeText(Stations[1], Stations[1]))
                    /\ ~trace[k].finished
              /\ k = 2 =>
                    /\ trace[k].ret = Some(SingleTerminalText(Stations[1]))
                    /\ trace[k].branch = "single"
                    /\ trace[k].finished
              /\ k > 2 => trace[k].ret = None /\ trace[k].finished
              /\ trace[k].branch \notin {"next_stop", "terminal", "farewell"}

C3_Witness ==
    /\ Loaded
    /\ N = 1
    /\ Len(trace) = 3
    /\ trace[2].branch = "single"
    /\ trace[3].ret = None

\* ---------------------------------------------------------------------- C4
\* C4: once finished is true, every further next_message call returns None,
\* produces no farewell or other text, and leaves route, welcome_played,
\* next_index, finished and last_message unchanged.
C4_FinishedAbsorbing ==
    [][ (mgr.finished /\ last'.op = "next_message") =>
            /\ last'.ret = None
            /\ last'.raised = ""
            /\ mgr' = mgr ]_vars

C4_Witness ==
    /\ mgr.finished
    /\ LastOps(3) = << "next_message", "next_message", "next_message" >>
    /\ Len(trace) >= 3
    /\ trace[Len(trace) - 2].ret # None
    /\ trace[Len(trace) - 1].ret = None
    /\ trace[Len(trace)].ret = None

\* ---------------------------------------------------------------------- C5
\* C5: next_station_name() stays consistent with next_message(): with a
\* loaded, unfinished route it returns the station that the next call of
\* next_message() taking a next-stop / terminal branch names (the welcome
\* call leaves its answer unchanged); on a multi-station route it reports
\* stations[1] before the welcome has played; it is None whenever finished
\* is true or no route is loaded.
C5_NextStationConsistent ==
    /\ [] /\ (~Loaded \/ mgr.finished) => next_station_name(mgr) = None
          /\ (Loaded /\ ~mgr.finished) => next_station_name(mgr) # None
          /\ (Loaded /\ N >= 2 /\ ~mgr.welcome_played) =>
                 next_station_name(mgr) = Some(Stations[2])
    /\ [][ /\ (last'.op = "next_message" /\ last'.branch = "welcome") =>
                 next_station_name(mgr') = next_station_name(mgr)
           /\ (last'.op = "next_message"
                 /\ last'.branch \in {"next_stop", "terminal", "single"}) =>
                 \E station \in StationNames :
                     /\ next_station_name(mgr) = Some(station)
                     /\ last'.ret \in { Some(NextStopText(station)),
                                        Some(TerminalText(station)),
                                        Some(SingleTerminalText(station)) } ]_vars

\* a next-stop call has just named the stop that was reported before the
\* welcome, and the stop after it is reported now
C5_Witness ==
    /\ Loaded
    /\ N = 3
    /\ Len(trace) = 2
    /\ last.op = "next_message"
    /\ last.ret = Some(NextStopText(Stations[2]))
    /\ next_station_name(mgr) = Some(Stations[3])

\* ---------------------------------------------------------------------- C6
\* the text of the latest next_message call that returned one, None when
\* no call since load_route / reset has
LastProduced(tr) ==
    LET produced == {k \in 1..Len(tr) : tr[k].ret # None}
    IN  IF produced = {} THEN None
        ELSE tr[CHOOSE k \in produced : \A j \in produced : j <= k].ret

\* C6: repeat_last() before any next_message() after load_route() is None;
\* after a next_message() call it returns exactly the text that call
\* returned, and keeps returning it until a later next_message() call
\* produces another text.
C6_RepeatLast ==
    /\ repeat_last(mgr) = LastProduced(trace)
    /\ last.op = "repeat_last" => last.ret = LastProduced(trace)
    /\ (last.op = "next_message" /\ last.ret # None) => repeat_last(mgr) = last.ret

C6_Witness ==
    /\ Loaded
    /\ LastOps(3) = << "next_message", "repeat_last", "repeat_last" >>
    /\ Len(trace) = 2
    /\ last.ret = trace[2].ret
    /\ last.ret # None

\* ---------------------------------------------------------------------- C7
\* C7: no residual state leaks across routes: after any history reset()
\* leaves the manager as a new manager is, and load_route(r) after it puts
\* the manager in the state a new manager is in after load_route(r), the
\* state all later results are computed from.
C7_ResetThenLoadIsFresh ==
    [][ /\ last'.op = "reset" => mgr' = NewManager
        /\ (last.op = "reset" /\ last'.op = "load_route") =>
               mgr' = load_route(NewManager, mgr'.route[1]) ]_vars

C7_Witness ==
    /\ LastOps(3) = << "next_message", "reset", "load_route" >>
    /\ Loaded
    /\ mgr = load_route(NewManager, mgr.route[1])

\* ---------------------------------------------------------------------- C8
\* C8: next_message() with no route loaded (before any load_route, or after
\* reset) raises the no-route error, returns nothing and leaves the state
\* unchanged; it raises in no other case; after reset has_route() is false,
\* repeat_last() is None and next_station_name() is None.
C8_NoRoute ==
    /\ [] /\ last.op = "reset" =>
                 /\ ~has_route(mgr)
                 /\ repeat_last(mgr) = None
                 /\ next_station_name(mgr) = None
          /\ last.raised # "" =>
                 /\ last.op = "next_message"
                 /\ last.raised = NoRouteError
                 /\ ~has_route(mgr)
    /\ [][ (~has_route(mgr) /\ last'.op = "next_message") =>
                 /\ last'.raised = NoRouteError
                 /\ last'.ret = None
                 /\ mgr' = mgr ]_vars

C8_Witness ==
    /\ LastOps(3) = << "next_message", "reset", "next_message" >>
    /\ last.raised = NoRouteError
    /\ ~has_route(mgr)
    /\ mgr = NewManager

\* ---------------------------------------------------------------------- C9
IsPrefix(a, b) ==
    /\ Len(a) <= Len(b)
    /\ \A i \in 1..Len(a) : a[i] = b[i]

\* C9: the worker renders one text at a time and in the order of the speak
\* calls: the texts whose rendering has started are, in order, the first of
\* the texts enqueued; at most one utterance is audible; and speak is
\* enabled whatever the queue holds and whatever the worker is doing.
C9_FifoOneAtATime ==
    /\ IsPrefix(started, enqueued)
    /\ Len(engine.audible) <= 1
    /\ Len(rendered) + Len(engine.audible) = Len(started)
    /\ \A text \in Texts : Len(enqueued) < MaxSpeaks => ENABLED Speak(text)

\* y was put while x was being rendered with another text still queued, and
\* both renderings started in the order of the calls
C9_Witness ==
    /\ Len(enqueued) = 3
    /\ enqueued[1] # enqueued[2]
    /\ started = SubSeq(enqueued, 1, 2)
    /\ worker.pc = "speaking"
    /\ Len(queue) = 1
    /\ rendered[1].next_waiting

\* --------------------------------------------------------------------- C10
\* C10: with speak(x) then speak(y) issued before x has finished rendering,
\* the worker renders y after interrupting x: x is never rendered to
\* completion with y, already queued, starting only afterwards.
C10_InterruptsStale ==
    \A i \in 1..Len(rendered) :
        ~ /\ rendered[i].outcome = "completed"
          /\ rendered[i].next_waiting
          /\ Len(started) > i

\* --------------------------------------------------------------------- C11
\* C11: a failure of the speech engine while rendering an item is swallowed
\* and the worker goes on to the next queued item: the worker loop ends only
\* by taking the shutdown sentinel from the queue, never because
\* engine.stop / say / runAndWait failed.
C11_OnlySentinelEndsWorker ==
    /\ worker.pc \notin {"get", "stop", "say", "run", "speaking"} =>
           /\ worker.pc = "exited"
           /\ worker.item = None
    /\ \A i \in 1..Len(rendered) :
           rendered[i].outcome = "failed" => worker.pc # "crashed"

\* --------------------------------------------------------------------- C12
\* the number of texts put after the shutdown sentinel
AfterSentinel ==
    IF \E i \in 1..Len(queue) : queue[i] = None
    THEN Len(queue) - (CHOOSE i \in 1..Len(queue) :
                          /\ queue[i] = None
                          /\ \A j \in 1..(i - 1) : queue[j] # None)
    ELSE IF worker.pc = "exited" THEN Len(queue)
    ELSE 0

\* the texts put before the shutdown sentinel (all of them while there is none)
PreSentinel == SubSeq(enqueued, 1, Len(enqueued) - AfterSentinel)

\* C12: every text enqueued before the shutdown sentinel is taken from the
\* queue exactly once and its rendering attempted: none is rendered twice,
\* and the worker does not end while a text enqueued before the sentinel has
\* not been started.
C12_EveryTextAttemptedOnce ==
    /\ IsPrefix(started, PreSentinel)
    /\ worker.pc \in {"exited", "crashed"} => started = PreSentinel

\* --------------------------------------------------------------------- C13
\* C13: stop() puts the sentinel behind all texts enqueued before it; the
\* worker renders those texts and then, taking the sentinel, exits without
\* speaking it; no text enqueued after the sentinel is rendered; and the
\* join in stop() returns whether or not the worker has ended.
C13_ShutdownProtocol ==
    stopper # "idle" =>
        /\ IsPrefix(started, PreSentinel)
        /\ worker.pc \in {"exited", "crashed"} =>
               /\ worker.pc = "exited"
               /\ started = PreSentinel
               /\ \A i \in 1..Len(rendered) : rendered[i].outcome = "completed"
        /\ stopper = "joining" => ENABLED StopJoinReturns

\* --------------------------------------------------------------------- C15
\* C15 as stated: a next_message() call made past the end of a multi-station
\* route's stops (the call after the terminal-approach message) finds
\* next_index >= len(stations) with finished still false, sets finished and
\* returns the farewell message.
C15_Original ==
    (Loaded /\ N >= 2 /\ Len(trace) >= N + 1) =>
        /\ trace[N + 1].branch = "farewell"
        /\ trace[N + 1].ret = Some(FarewellText)
        /\ trace[N + 1].finished

\* C15 amended: when next_message() is called past the end of a
\* multi-station route's stops, finished is already true and the call
\* returns None; next_index >= len(stations) with finished false is never
\* reached, so no sequence of load_route / next_message / repeat_last /
\* reset calls returns the farewell message.
C15_FarewellNeverReturned ==
    /\ (Loaded /\ N >= 2 /\ mgr.next_index >= N) => mgr.finished
    /\ (Loaded /\ N >= 2 /\ Len(trace) >= N + 1) =>
           /\ trace[N + 1].branch = "finished"
           /\ trace[N + 1].ret = None
    /\ \A k \in 1..Len(trace) :
           /\ trace[k].branch # "farewell"
           /\ trace[k].ret # Some(FarewellText)
    /\ mgr.last_message # Some(FarewellText)
    /\ last.ret # Some(FarewellText)

C15_Witness ==
    /\ Loaded
    /\ N = 2
    /\ mgr.next_index = N
    /\ Len(trace) = N + 2
    /\ trace[N].branch = "terminal"
    /\ trace[N + 1].ret = None
    /\ last.op = "next_message"

\* --------------------------------------------------------------------- C19
\* C19: over any sequence of load_route (with at least one station),
\* next_message, repeat_last and reset: finished implies welcome_played;
\* with a route of N >= 2 stations 1 <= next_index <= N, and next_index = N
\* exactly when finished; with a one-station route next_index stays 0;
\* stations[next_index] is never read out of range; and the welcome call
\* does not change next_index.
C19_SequencerInvariant ==
    /\ [] /\ mgr.finished => mgr.welcome_played
          /\ (Loaded /\ N >= 2) =>
                 /\ 1 <= mgr.next_index
                 /\ mgr.next_index <= N
                 /\ (mgr.next_index = N) <=> mgr.finished
          /\ (Loaded /\ N = 1) => mgr.next_index = 0
    /\ [][ /\ (last'.op = "next_message" /\ last'.branch = "welcome") =>
                 mgr'.next_index = mgr.next_index
           /\ (last'.op = "next_message"
                 /\ last'.branch \in {"next_stop", "terminal"}) =>
                 /\ 0 <= mgr.next_index
                 /\ mgr.next_index < N
                 /\ mgr'.next_index = mgr.next_index + 1 ]_vars

C19_Witness ==
    /\ Loaded
    /\ N = 3
    /\ mgr.next_index = 3
    /\ mgr.finished
    /\ last.op = "next_message"
    /\ last.branch = "terminal"

\* --------------------------------------------------------------------- C14
\* C14: a hotkey reconfiguration with an invalid combination fails without
\* altering the binding active before: when register raises, and when
\* _register_user_hotkeys fails on either of its two hotkeys, every binding
\* that was active before the call is still the one active afterwards.
C14_FailureKeepsBindings ==
    hk.raised # "" => Bindings(hotkeys) = Bindings(hk.before)

\* --------------------------------------------------------------------- C17
\* C17: register replaces the binding under its name; after any sequence of
\* register / unregister / clear calls the hotkeys live in the keyboard
\* module are exactly those whose handles the controller tracks, at most
\* one per name; a blank combination adds no binding and raises nothing;
\* unregister of a name without a binding changes nothing; clear leaves no
\* binding live.
C17_ControllerTracksBackend ==
    /\ {hotkeys.handles[n] : n \in DOMAIN hotkeys.handles}
           = {b.handle : b \in hotkeys.live}
    /\ Cardinality(hotkeys.live) = Cardinality(DOMAIN hotkeys.handles)
    /\ hk.op = "register" =>
           /\ \A n \in HotkeyNames \ {hk.name} :
                  Binding(hotkeys, n) = Binding(hk.before, n)
           /\ IF strip(hk.combination) = << >>
              THEN hk.raised = "" /\ Binding(hotkeys, hk.name) = None
              ELSE hk.raised = "" =>
                       Binding(hotkeys, hk.name)
                           = Some([combination |-> hk.combination,
                                   callback |-> hk.callback])
    /\ hk.op = "unregister" =>
           /\ hk.raised = ""
           /\ Binding(hotkeys, hk.name) = None
           /\ \A n \in HotkeyNames \ {hk.name} :
                  Binding(hotkeys, n) = Binding(hk.before, n)
           /\ hk.name \notin DOMAIN hk.before.handles => hotkeys = hk.before
    /\ hk.op = "clear" =>
           /\ hotkeys.live = {}
           /\ DOMAIN hotkeys.handles = {}

\* a register call has replaced the binding of a name that had one, with
\* the other name's binding live beside it
C17_Witness ==
    /\ hk.op = "register"
    /\ hk.raised = ""
    /\ Binding(hk.before, hk.name) # None
    /\ Binding(hotkeys, hk.name) # None
    /\ Binding(hotkeys, hk.name) # Binding(hk.before, hk.name)
    /\ Cardinality(hotkeys.live) = 2

\* --------------------------------------------------------------------- C16
\* every handler run is on the main thread and at most one runs at a time;
\* every firing is either still scheduled or was dispatched, once
C16_OneContext ==
    /\ \A r \in running : r.thread = MainThread
    /\ Cardinality(running) <= 1
    /\ fired = dispatched + Len(after_queue)

\* a hotkey firing touches neither the sequencer nor the speech queue: it
\* appends one handler to the scheduled callbacks; a dispatch starts the
\* oldest scheduled handler on the main thread; the sequencer changes only
\* in a step that ends a handler run of the main thread
C16_Redispatch ==
    /\ fired' # fired =>
          /\ fired' = fired + 1
          /\ \E handler \in {"_trigger_next", "_repeat_last"} :
                after_queue' = Append(after_queue, handler)
          /\ UNCHANGED << mgr, queue, running, dispatched >>
    /\ dispatched' # dispatched =>
          /\ dispatched' = dispatched + 1
          /\ after_queue # << >>
          /\ after_queue' = Tail(after_queue)
          /\ running = {}
          /\ running' = {Execution(MainThread, Head(after_queue))}
          /\ UNCHANGED << mgr, queue, fired >>
    /\ (mgr' # mgr \/ queue' # queue) =>
          \E r \in running : r.thread = MainThread /\ running' = running \ {r}

\* C16: hotkey callbacks never run sequencer operations themselves: a firing
\* only schedules _trigger_next / _repeat_last, handler runs are all on the
\* main thread and never overlap, and the k-th firing leads to the k-th
\* dispatch onto the main thread
C16_HotkeysRedispatched ==
    /\ []C16_OneContext
    /\ [][C16_Redispatch]_vars
    /\ \A k \in 1..MaxFired : (fired >= k) ~> (dispatched >= k)

\* two hotkeys fired while a route is loaded: the first one's handler is
\* running on the main thread, the second is still scheduled
C16_Witness ==
    /\ has_route(mgr)
    /\ fired = 2
    /\ dispatched = 1
    /\ Len(after_queue) = 1
    /\ running = {Execution(MainThread, "_trigger_next")}

\* --------------------------------------------------------------------- C18
\* the lines of a file that hold a character other than whitespace
NonBlank(given) ==
    {i \in 1..Len(given) : \E j \in 1..Len(given[i]) : given[i][j] \notin Whitespace}

\* a line from its first to its last character that is not whitespace
Trimmed(line) ==
    LET solid == {j \in 1..Len(line) : line[j] \notin Whitespace}
        lo == CHOOSE j \in solid : \A k \in solid : j <= k
        hi == CHOOSE j \in solid : \A k \in solid : k <= j
    IN  SubSeq(line, lo, hi)

\* the stations are the non-blank lines of the file, trimmed, in file order
StationsOf(stations, given) ==
    /\ Len(stations) = Cardinality(NonBlank(given))
    /\ \E f \in [1..Len(stations) -> NonBlank(given)] :
          /\ \A a, b \in 1..Len(stations) : a < b => f[a] < f[b]
          /\ \A k \in 1..Len(stations) : stations[k] = Trimmed(given[f[k]])

\* the step ends a run of _load_route that was given a file
LoadReturns ==
    /\ Execution(MainThread, "_load_route") \in running
    /\ Execution(MainThread, "_load_route") \notin running'
    /\ ui'.given # NoFile

\* a load of a file without stations shows the empty-route error and keeps
\* the manager as it was; any other load stores the file's stations
C18_LoadStep ==
    LoadReturns =>
        IF NonBlank(ui'.given) = {}
        THEN /\ ui'.dialog = EmptyRouteError
             /\ mgr' = mgr
        ELSE /\ ui'.dialog = ""
             /\ has_route(mgr')
             /\ StationsOf(mgr'.route[1].stations, ui'.given)

\* C18: a load whose file yields no station fails with the empty-route
\* error and leaves route and progress unchanged; the route of the manager
\* is always absent or has at least one station; a successful load stores the
\* non-blank trimmed lines in their order
C18_EmptyRouteRejected ==
    /\ [](has_route(mgr) => Len(mgr.route[1].stations) >= 1)
    /\ [][C18_LoadStep]_vars

\* a file of blank lines only was refused while a route was loaded and its
\* welcome already played
C18_Witness ==
    /\ ui.event = "_load_route"
    /\ ui.dialog = EmptyRouteError
    /\ Len(ui.given) = 2
    /\ has_route(mgr)
    /\ mgr.welcome_played
    /\ mgr.last_message # None
    /\ running = {}

\* --------------------------------------------------------------------- C20
\* the announcements of a station list: its welcome, its stops, its terminal
MessagesOf(stations) ==
    {WelcomeText(stations[1], stations[Len(stations)])}
        \cup {NextStopText(stations[i]) : i \in 1..Len(stations)}
        \cup {TerminalText(stations[Len(stations)])}
        \cup {SingleTerminalText(stations[1])}

\* the step ends a run of the handler on the main thread
HandlerReturns(handler) ==
    /\ Execution(MainThread, handler) \in running
    /\ Execution(MainThread, handler) \notin running'

\* what the handlers pass to speak
C20_Enqueue ==
    /\ HandlerReturns("_trigger_next") =>
          IF ~has_route(mgr) \/ mgr.finished
          THEN queue' = queue /\ mgr' = mgr
          ELSE /\ mgr'.last_message # None
               /\ mgr'.last_message[1] \in MessagesOf(mgr.route[1].stations)
               /\ queue' = Append(queue, mgr'.last_message)
    /\ HandlerReturns("_repeat_last") =>
          /\ mgr' = mgr
          /\ queue' = IF mgr.last_message = None THEN queue
                      ELSE Append(queue, mgr.last_message)
    /\ HandlerReturns("_load_route") =>
          /\ queue' = queue
          /\ mgr' # mgr => mgr'.last_message = None
    /\ queue' # queue =>
          HandlerReturns("_trigger_next") \/ HandlerReturns("_repeat_last")

\* C20: _trigger_next enqueues exactly the message next_message() just
\* produced for the loaded route, and nothing without a route or after the
\* end; _repeat_last enqueues exactly last_message, and nothing when it is
\* empty; last_message is always a message of the loaded route, so a repeat
\* after a new load never speaks a message of the previous route
C20_TriggerSafety ==
    /\ [](mgr.last_message # None =>
            /\ has_route(mgr)
            /\ mgr.last_message[1] \in MessagesOf(mgr.route[1].stations))
    /\ [][C20_Enqueue]_vars

\* a message of the previous route is in the queue, and the repeat after the
\* new load spoke nothing
C20_Witness ==
    /\ ui.event = "_repeat_last"
    /\ ui.dialog = NothingSpokenInfo
    /\ has_route(mgr)
    /\ mgr.last_message = None
    /\ Len(queue) = 1
    /\ queue[1][1] \notin MessagesOf(mgr.route[1].stations)
    /\ running = {}

====
